---- MODULE Spec2Model ----
(***************************************************************************)
(* A model of trading_engine/Engine.py: the TradingEngine with its         *)
(* directory of order books, the submitter threads calling addOrder, the   *)
(* background matching thread (continuous_matching), a second thread that  *)
(* calls matchOrder directly, and a thread calling stop().                 *)
(*                                                                         *)
(* Threads interleave between statements that touch shared state without   *)
(* a common lock.  A heap operation runs wholly under its side lock        *)
(* (buy_lock / sell_lock), which is held for nothing else, so it is one    *)
(* step.                                                                   *)
(***************************************************************************)
EXTENDS Integers, Sequences, FiniteSets, TLC

\* ---------------------------------------------------------------- bounds
\* Orders created over the engine's lifetime.
MaxOrders == 3
\* Calls of stop().
MaxStops == 2

\* ------------------------------------------------------- program constants
\* self.size (1600 in the source), scaled down so that the directory fills.
size == 2

BUY == "BUY"
SELL == "SELL"
OrderType == {BUY, SELL}

\* The value None of Python, for a slot's ticker_symbol and a slot's trade
\* lock; NoOrder is None for an order reference.
None == "<None>"
\* A lock nobody holds.
Free == "<free>"
NoOrder == 0
\* The index ticker_to_index returns when no slot is found (None, line 109).
NoIndex == -1
\* A submitter that has not called addOrder yet has no arguments.
NoRequest == [order_type |-> None, ticker_symbol |-> None, quantity |-> 0, price |-> 0]

\* The ticker strings callers pass; the empty string is one of them.
Tickers == {"", "X", "Y"}
\* The quantities and prices callers pass: -1 and 0 are the invalid ones.
Quantities == {-1, 0, 40, 100}
Prices == {-1, 0, 45, 50}

\* hash(ticker_symbol): a sample of the interpreter's string hash; the
\* hash of the empty string is 0 in CPython, "X" and "Y" collide modulo size.
hash(t) == CASE t = "" -> 0 [] t = "X" -> 5 [] t = "Y" -> 7

Slots == 0 .. (size - 1)

Submitters == {"s1", "s2"}
BG == "bg"
Caller == "m1"
Matchers == {BG, Caller}
Stopper == "st"
Threads == Submitters \cup Matchers \cup {Stopper}

VARIABLES
    ticker_symbol,       \* order_books[i].ticker_symbol
    buy_orders,          \* order_books[i].buy_orders : a heap of order ids
    sell_orders,         \* order_books[i].sell_orders
    trade_locks,         \* trade_locks[i] : None, Free or the holding thread
    match_lock,          \* Free or the holding thread
    create_ticker_lock,  \* Free or the holding thread
    matches,             \* the ledger, a sequence of MatchedOrders
    running,             \* self.running
    orders,              \* every Order object created, by order_id
    pc,                  \* each thread's position
    req,                 \* a submitter's arguments of its current/last call
    cur,                 \* a submitter's local `order` (an id)
    index,               \* a submitter's local `index`; a matcher's loop index
    best_buy,            \* a matcher's local best_buy (an id or NoOrder)
    best_sell,           \* a matcher's local best_sell
    result,              \* a submitter's last call: None (in progress), "order_id"
                         \* (it returned cur's id), or the exception it raised
    stops,               \* completed calls of stop()
    submitted,           \* history: the quantity each order was created with
    pushed,              \* history: ids of the orders addOrder has queued
    undisturbed,         \* history: matcher's sweep saw no addOrder since it began
    entered              \* history: the queues a matcher found when it took
                         \* the trade lock of its slot in an undisturbed sweep

book == <<ticker_symbol, buy_orders, sell_orders>>
locks == <<trade_locks, match_lock, create_ticker_lock>>
shared == <<ticker_symbol, buy_orders, sell_orders, trade_locks, matches>>
matcherLocals == <<best_buy, best_sell>>
submitterLocals == <<req, cur, result>>
history == <<submitted, pushed, entered>>
vars == <<ticker_symbol, buy_orders, sell_orders, trade_locks, match_lock,
          create_ticker_lock, matches, running, orders, pc, req, cur, index,
          best_buy, best_sell, result, stops, submitted, pushed, undisturbed,
          entered>>

\* ------------------------------------------------------------------ Order

\* Order.__init__: the timestamp is the clock at creation, the id is fresh.
\* Successive calls of time.time() are taken to give increasing values, so
\* the timestamp of the n-th order created is n.
Order(order_type, ticker, price, quantity, now) ==
    [order_type |-> order_type, ticker_symbol |-> ticker, price |-> price,
     quantity |-> quantity, timestamp |-> now]

\* Order.__lt__ with the tie-break reversed (later first).
LtLatest(self, other) ==
    IF self.order_type = BUY
    THEN IF self.price # other.price THEN self.price > other.price
         ELSE self.timestamp > other.timestamp
    ELSE IF self.price # other.price THEN self.price < other.price
         ELSE self.timestamp > other.timestamp

\* Order.__lt__
Lt(self, other) ==
    IF self.order_type = BUY
    THEN IF self.price # other.price THEN self.price > other.price
         ELSE self.timestamp < other.timestamp
    ELSE IF self.price # other.price THEN self.price < other.price
         ELSE self.timestamp < other.timestamp

\* ------------------------------------------------------------------ heapq
\* heapq on a list of order references: positions are 0-based as in heapq,
\* heap[pos] is h[pos + 1].  ords is the table of Order objects.

RECURSIVE siftdown(_, _, _, _, _)
siftdown(ords, h, startpos, pos, newitem) ==
    IF pos > startpos
    THEN LET parentpos == (pos - 1) \div 2
             parent == h[parentpos + 1]
         IN IF Lt(ords[newitem], ords[parent])
            THEN siftdown(ords, [h EXCEPT ![pos + 1] = parent], startpos,
                          parentpos, newitem)
            ELSE [h EXCEPT ![pos + 1] = newitem]
    ELSE [h EXCEPT ![pos + 1] = newitem]

\* The loop of heapq._siftup: bubble the smaller child up until a leaf;
\* the result is <<heap, pos>>.
RECURSIVE siftupLoop(_, _, _)
siftupLoop(ords, h, pos) ==
    LET endpos == Len(h)
        childpos == 2 * pos + 1
        rightpos == childpos + 1
    IN IF childpos < endpos
       THEN LET c == IF rightpos < endpos
                        /\ ~ Lt(ords[h[childpos + 1]], ords[h[rightpos + 1]])
                     THEN rightpos ELSE childpos
            IN siftupLoop(ords, [h EXCEPT ![pos + 1] = h[c + 1]], c)
       ELSE <<h, pos>>

siftup(ords, h, pos) ==
    LET newitem == h[pos + 1]
        r == siftupLoop(ords, h, pos)
    IN siftdown(ords, r[1], pos, r[2], newitem)

\* heapq.heappush(heap, item)
heappush(ords, h, item) == siftdown(ords, Append(h, item), 0, Len(h), item)

\* heapq.heappop(heap) on a non-empty heap: <<item, heap afterwards>>
heappop(ords, h) ==
    LET lastelt == h[Len(h)]
        rest == SubSeq(h, 1, Len(h) - 1)
    IN IF rest # <<>>
       THEN <<rest[1], siftup(ords, [rest EXCEPT ![1] = lastelt], 0)>>
       ELSE <<lastelt, <<>>>>

\* -------------------------------------------------------------- OrderBook

\* OrderBook.get_best_buy / get_best_sell: the heap's first element or None
get_best_buy(i) == IF buy_orders[i] # <<>> THEN buy_orders[i][1] ELSE NoOrder
get_best_sell(i) == IF sell_orders[i] # <<>> THEN sell_orders[i][1] ELSE NoOrder

\* OrderBook.add_order, on book i with the table ords of Order objects
add_order(i, ords, o) ==
    IF ords[o].order_type = BUY
    THEN /\ buy_orders' = [buy_orders EXCEPT ![i] = heappush(ords, @, o)]
         /\ UNCHANGED sell_orders
    ELSE /\ sell_orders' = [sell_orders EXCEPT ![i] = heappush(ords, @, o)]
         /\ UNCHANGED buy_orders

\* A matcher outside a transaction has found nothing.
NoEntry == [buys |-> {}, sells |-> {}]

\* ------------------------------------------------------------------- Init

\* TradingEngine.__init__: empty books, no trade lock, an empty ledger, and
\* the matching thread started.
Init ==
    /\ ticker_symbol = [i \in Slots |-> None]
    /\ buy_orders = [i \in Slots |-> <<>>]
    /\ sell_orders = [i \in Slots |-> <<>>]
    /\ trade_locks = [i \in Slots |-> None]
    /\ match_lock = Free
    /\ create_ticker_lock = Free
    /\ matches = <<>>
    /\ running = TRUE
    /\ orders = <<>>
    /\ pc = [t \in Threads |-> IF t = BG THEN "loop" ELSE "idle"]
    /\ req = [s \in Submitters |-> NoRequest]
    /\ cur = [s \in Submitters |-> NoOrder]
    /\ index = [t \in Submitters \cup Matchers |-> 0]
    /\ best_buy = [m \in Matchers |-> NoOrder]
    /\ best_sell = [m \in Matchers |-> NoOrder]
    /\ result = [s \in Submitters |-> None]
    /\ stops = 0
    /\ submitted = <<>>
    /\ pushed = {}
    /\ undisturbed = [m \in Matchers |-> FALSE]
    /\ entered = [m \in Matchers |-> NoEntry]

\* A thread between two calls.
Between == {"idle", "returned", "raised"}

\* ------------------------------------------------- addOrder (a submitter)

\* `not order_book.ticker_symbol`: None and the empty string are both false.
Falsy(v) == v = None \/ v = ""

\* The test of lines 88 and 100 on slot i for ticker t.
Claimable(i, t) == ticker_symbol[i] = t \/ Falsy(ticker_symbol[i])

\* The slot ticker_to_index settles on for ticker t: the start slot if it is
\* claimable, else the first claimable slot of the probe sequence
\* (index + i) % size, i = 0 .. size - 1, else None.
ProbeSlot(t) ==
    LET start == hash(t) % size
        hits == {i \in 0 .. (size - 1) : Claimable((start + i) % size, t)}
    IN IF Claimable(start, t) THEN start
       ELSE IF hits = {} THEN NoIndex
       ELSE (start + (CHOOSE i \in hits : \A j \in hits : i <= j)) % size

\* Line 113 with `<` for `<=`.
InvalidStrict(quantity, price) == quantity < 0 \/ price < 0

\* Line 113: quantity <= 0 or price <= 0
Invalid(quantity, price) == quantity <= 0 \/ price <= 0

\* addOrder, lines 113-116: validate, raise ValueError or create the Order.
addOrder(s, requests) ==
    /\ pc[s] \in Between
    /\ \E r \in requests :
         /\ req' = [req EXCEPT ![s] = r]
         /\ IF Invalid(r.quantity, r.price)
            THEN /\ pc' = [pc EXCEPT ![s] = "raised"]
                 /\ result' = [result EXCEPT ![s] = "ValueError"]
                 /\ UNCHANGED <<orders, cur, submitted, undisturbed>>
            ELSE /\ Len(orders) < MaxOrders
                 /\ orders' = Append(orders, Order(r.order_type, r.ticker_symbol,
                                                   r.price, r.quantity,
                                                   Len(orders) + 1))
                 /\ submitted' = Append(submitted, r.quantity)
                 /\ cur' = [cur EXCEPT ![s] = Len(orders) + 1]
                 /\ pc' = [pc EXCEPT ![s] = "t2i_enter"]
                 /\ result' = [result EXCEPT ![s] = None]
                 /\ undisturbed' = [m \in Matchers |-> FALSE]
    /\ UNCHANGED <<shared, match_lock, create_ticker_lock, running, index,
                   matcherLocals, stops, pushed, entered>>

\* ticker_to_index, line 85: with self.create_ticker_lock
ticker_to_index_enter(s) ==
    /\ pc[s] = "t2i_enter"
    /\ create_ticker_lock = Free
    /\ create_ticker_lock' = s
    /\ pc' = [pc EXCEPT ![s] = "t2i_claim"]
    /\ undisturbed' = [m \in Matchers |-> FALSE]
    /\ UNCHANGED <<shared, match_lock, running, orders, index, matcherLocals,
                   submitterLocals, stops, history>>

\* ticker_to_index, lines 86-89 and 96-101: find the slot and write the
\* ticker into it; with no slot, lines 107-109 return None and line 118 of
\* addOrder raises TypeError on order_books[None].
ticker_to_index_claim(s) ==
    /\ pc[s] = "t2i_claim"
    /\ LET t == req[s].ticker_symbol
           i == ProbeSlot(t)
       IN IF i # NoIndex
          THEN /\ ticker_symbol' = [ticker_symbol EXCEPT ![i] = t]
               /\ index' = [index EXCEPT ![s] = i]
               /\ pc' = [pc EXCEPT ![s] = "t2i_lock"]
               /\ UNCHANGED <<create_ticker_lock, result>>
          ELSE /\ create_ticker_lock' = Free
               /\ pc' = [pc EXCEPT ![s] = "raised"]
               /\ result' = [result EXCEPT ![s] = "TypeError"]
               /\ UNCHANGED <<ticker_symbol, index>>
    /\ undisturbed' = [m \in Matchers |-> FALSE]
    /\ UNCHANGED <<buy_orders, sell_orders, trade_locks, matches, match_lock,
                   running, orders, matcherLocals, req, cur, stops, history>>

\* Lines 92-94 and 104-106 returning with the directory lock still held.
ticker_to_index_lock_keeping(s) ==
    /\ pc[s] = "t2i_lock"
    /\ trade_locks' = [trade_locks EXCEPT ![index[s]] =
                          IF @ = None THEN Free ELSE @]
    /\ pc' = [pc EXCEPT ![s] = "add_order"]
    /\ undisturbed' = [m \in Matchers |-> FALSE]
    /\ UNCHANGED <<book, matches, match_lock, create_ticker_lock, running,
                   orders, index, matcherLocals, submitterLocals, stops,
                   history>>

\* Lines 92-94 and 104-106 without the test `is None`: a new lock object
\* replaces the slot's trade lock on every call.
ticker_to_index_lock_renewing(s) ==
    /\ pc[s] = "t2i_lock"
    /\ trade_locks' = [trade_locks EXCEPT ![index[s]] = Free]
    /\ create_ticker_lock' = Free
    /\ pc' = [pc EXCEPT ![s] = "add_order"]
    /\ undisturbed' = [m \in Matchers |-> FALSE]
    /\ UNCHANGED <<book, matches, match_lock, running, orders, index,
                   matcherLocals, submitterLocals, stops, history>>

\* ticker_to_index, lines 92-94 and 104-106: create the slot's trade lock
\* if there is none, leave the directory lock, return the index.
ticker_to_index_lock(s) ==
    /\ pc[s] = "t2i_lock"
    /\ trade_locks' = [trade_locks EXCEPT ![index[s]] =
                          IF @ = None THEN Free ELSE @]
    /\ create_ticker_lock' = Free
    /\ pc' = [pc EXCEPT ![s] = "add_order"]
    /\ undisturbed' = [m \in Matchers |-> FALSE]
    /\ UNCHANGED <<book, matches, match_lock, running, orders, index,
                   matcherLocals, submitterLocals, stops, history>>

\* addOrder, lines 118-121: push the order into the slot's book, return
\* its id (cur and req keep the call's order and arguments; the local index
\* is dead and reset).
addOrder_push(s) ==
    /\ pc[s] = "add_order"
    /\ add_order(index[s], orders, cur[s])
    /\ pushed' = pushed \cup {cur[s]}
    /\ result' = [result EXCEPT ![s] = "order_id"]
    /\ pc' = [pc EXCEPT ![s] = "returned"]
    /\ index' = [index EXCEPT ![s] = 0]
    /\ undisturbed' = [m \in Matchers |-> FALSE]
    /\ UNCHANGED <<ticker_symbol, trade_locks, matches, match_lock,
                   create_ticker_lock, running, orders, matcherLocals,
                   req, cur, stops, submitted, entered>>

\* ------------------------------------------------ matching (a matcher)

\* Line 66 without the min: the buy order's quantity.
FillQuantityOfBuy(buy_order, sell_order) == buy_order.quantity

\* Line 66: min(buy_order.quantity, sell_order.quantity)
FillQuantity(buy_order, sell_order) ==
    IF buy_order.quantity <= sell_order.quantity
    THEN buy_order.quantity ELSE sell_order.quantity

\* Line 67 with the buy order's price.
FillPriceOfBuy(buy_order, sell_order) == buy_order.price

\* Line 67: the price of the sell order
FillPrice(buy_order, sell_order) == sell_order.price

\* MatchedOrders.__init__ ; the record's own timestamp is left out, nothing
\* reads it.
MatchedOrders(buy_order_id, sell_order_id) ==
    LET b == orders[buy_order_id]
        s == orders[sell_order_id]
    IN [buy_order_id |-> buy_order_id, sell_order_id |-> sell_order_id,
        quantity |-> FillQuantity(b, s), price |-> FillPrice(b, s)]

\* The start of matchOrder (line 162): the sweep begins at slot 0.
StartSweep(m) ==
    /\ pc' = [pc EXCEPT ![m] = "m_check"]
    /\ index' = [index EXCEPT ![m] = 0]
    /\ undisturbed' = [undisturbed EXCEPT ![m] =
                          \A s \in Submitters : pc[s] \in Between]

\* The end of match_orders_by_index(i): the next slot of the for loop of
\* line 162, or the end of matchOrder.
NextSlot(m) ==
    IF index[m] + 1 < size
    THEN /\ index' = [index EXCEPT ![m] = index[m] + 1]
         /\ pc' = [pc EXCEPT ![m] = "m_check"]
    ELSE /\ index' = [index EXCEPT ![m] = 0]
         /\ pc' = [pc EXCEPT ![m] = IF m = BG THEN "loop" ELSE "returned"]

\* matchOrder called by a thread of the application.
matchOrder(m) ==
    /\ m = Caller
    /\ pc[m] \in Between
    /\ StartSweep(m)
    /\ UNCHANGED <<shared, match_lock, create_ticker_lock, running, orders,
                   matcherLocals, submitterLocals, stops, history>>

\* Lines 167-169 with `while True`: the flag is not read.
continuous_matching_forever(m) ==
    /\ m = BG
    /\ pc[m] = "loop"
    /\ StartSweep(m)
    /\ UNCHANGED <<shared, match_lock, create_ticker_lock, running, orders,
                   matcherLocals, submitterLocals, stops, history>>

\* continuous_matching, lines 167-169: test self.running, sleep, sweep.
continuous_matching(m) ==
    /\ m = BG
    /\ pc[m] = "loop"
    /\ IF running
       THEN StartSweep(m)
       ELSE /\ pc' = [pc EXCEPT ![m] = "exited"]
            /\ UNCHANGED <<index, undisturbed>>
    /\ UNCHANGED <<shared, match_lock, create_ticker_lock, running, orders,
                   matcherLocals, submitterLocals, stops, history>>

\* match_orders_by_index, lines 125-126: skip a slot with no ticker.
match_check(m) ==
    /\ pc[m] = "m_check"
    /\ IF ticker_symbol[index[m]] = None
       THEN NextSlot(m)
       ELSE /\ pc' = [pc EXCEPT ![m] = "m_enter"]
            /\ UNCHANGED index
    /\ UNCHANGED <<shared, match_lock, create_ticker_lock, running, orders,
                   matcherLocals, submitterLocals, stops, history, undisturbed>>

\* The orders matcher m finds in the queues of its slot when it takes the
\* trade lock, kept for a sweep that no addOrder has disturbed.
Found(m) ==
    IF undisturbed[m]
    THEN [buys |-> {buy_orders[index[m]][k] : k \in DOMAIN buy_orders[index[m]]},
          sells |-> {sell_orders[index[m]][k] : k \in DOMAIN sell_orders[index[m]]}]
    ELSE NoEntry

\* Line 131: with self.trade_locks[index]. With no lock object there, the
\* with statement raises and the exception leaves the thread's function:
\* the background thread dies, matchOrder raises in a caller.
match_enter(m) ==
    /\ pc[m] = "m_enter"
    /\ trade_locks[index[m]] \in {None, Free}
    /\ IF trade_locks[index[m]] = None
       THEN /\ pc' = [pc EXCEPT ![m] = IF m = BG THEN "crashed" ELSE "raised"]
            /\ UNCHANGED <<trade_locks, entered>>
       ELSE /\ trade_locks' = [trade_locks EXCEPT ![index[m]] = m]
            /\ pc' = [pc EXCEPT ![m] = "m_pop_buy"]
            /\ entered' = [entered EXCEPT ![m] = Found(m)]
    /\ UNCHANGED <<book, matches, match_lock, create_ticker_lock, running,
                   orders, index, matcherLocals, submitterLocals, stops,
                   submitted, pushed, undisturbed>>

\* Line 133: best_buy = order_book.pop_best_buy()
match_pop_buy(m) ==
    /\ pc[m] = "m_pop_buy"
    /\ LET h == buy_orders[index[m]]
       IN IF h # <<>>
          THEN /\ best_buy' = [best_buy EXCEPT ![m] = heappop(orders, h)[1]]
               /\ buy_orders' = [buy_orders EXCEPT ![index[m]] = heappop(orders, h)[2]]
          ELSE /\ best_buy' = [best_buy EXCEPT ![m] = NoOrder]
               /\ UNCHANGED buy_orders
    /\ pc' = [pc EXCEPT ![m] = "m_pop_sell"]
    /\ UNCHANGED <<ticker_symbol, sell_orders, trade_locks, matches,
                   match_lock, create_ticker_lock, running, orders, index,
                   best_sell, submitterLocals, stops, history, undisturbed>>

\* Line 135 with `>` for `>=`.
CrossingStrict(b, s) ==
    b # NoOrder /\ s # NoOrder /\ orders[b].price > orders[s].price

\* The test of line 135 on what was popped.
Crossing(b, s) ==
    b # NoOrder /\ s # NoOrder /\ orders[b].price >= orders[s].price

\* Lines 134-135: best_sell = order_book.pop_best_sell(), then the test.
match_pop_sell(m) ==
    /\ pc[m] = "m_pop_sell"
    /\ LET h == sell_orders[index[m]]
           s == IF h # <<>> THEN heappop(orders, h)[1] ELSE NoOrder
       IN /\ best_sell' = [best_sell EXCEPT ![m] = s]
          /\ sell_orders' = [sell_orders EXCEPT ![index[m]] =
                                IF h # <<>> THEN heappop(orders, h)[2] ELSE h]
          /\ pc' = [pc EXCEPT ![m] = IF Crossing(best_buy[m], s)
                                     THEN "m_ledger" ELSE "m_putback_buy"]
    /\ UNCHANGED <<ticker_symbol, buy_orders, trade_locks, matches,
                   match_lock, create_ticker_lock, running, orders, index,
                   best_buy, submitterLocals, stops, history, undisturbed>>

\* Line 138: with self.match_lock
match_ledger(m) ==
    /\ pc[m] = "m_ledger"
    /\ match_lock = Free
    /\ match_lock' = m
    /\ pc' = [pc EXCEPT ![m] = "m_append"]
    /\ UNCHANGED <<shared, create_ticker_lock, running, orders, index,
                   matcherLocals, submitterLocals, stops, history, undisturbed>>

\* Lines 139-144 with lines 146-151 inside the with block: the ledger lock
\* is still held after the append.
match_append_keeping(m) ==
    /\ pc[m] = "m_append"
    /\ matches' = Append(matches, MatchedOrders(best_buy[m], best_sell[m]))
    /\ pc' = [pc EXCEPT ![m] = "m_requeue"]
    /\ UNCHANGED <<book, trade_locks, match_lock, create_ticker_lock, running,
                   orders, index, matcherLocals, submitterLocals, stops,
                   history, undisturbed>>

\* Lines 139-144: append the MatchedOrders record, leave the ledger lock.
match_append(m) ==
    /\ pc[m] = "m_append"
    /\ matches' = Append(matches, MatchedOrders(best_buy[m], best_sell[m]))
    /\ match_lock' = Free
    /\ pc' = [pc EXCEPT ![m] = "m_requeue"]
    /\ UNCHANGED <<book, trade_locks, create_ticker_lock, running, orders,
                   index, matcherLocals, submitterLocals, stops, history,
                   undisturbed>>

\* Lines 147 and 150 without the subtraction.
RemainderKept(larger, smaller) == larger

\* Lines 147 and 150: quantity -= the other side's quantity
Remainder(larger, smaller) == larger - smaller

\* Lines 146-151: the side with the larger quantity is reduced and pushed
\* back; then the trade lock is left and the while loop goes round again.
match_requeue(m) ==
    /\ pc[m] = "m_requeue"
    /\ LET b == best_buy[m]
           s == best_sell[m]
           qb == orders[b].quantity
           qs == orders[s].quantity
       IN IF qb > qs
          THEN /\ orders' = [orders EXCEPT ![b].quantity = Remainder(qb, qs)]
               /\ add_order(index[m], orders', b)
          ELSE IF qb < qs
          THEN /\ orders' = [orders EXCEPT ![s].quantity = Remainder(qs, qb)]
               /\ add_order(index[m], orders', s)
          ELSE UNCHANGED <<orders, buy_orders, sell_orders>>
    /\ trade_locks' = [trade_locks EXCEPT ![index[m]] = Free]
    /\ best_buy' = [best_buy EXCEPT ![m] = NoOrder]
    /\ best_sell' = [best_sell EXCEPT ![m] = NoOrder]
    /\ pc' = [pc EXCEPT ![m] = "m_enter"]
    /\ entered' = [entered EXCEPT ![m] = NoEntry]
    /\ UNCHANGED <<ticker_symbol, matches, match_lock, create_ticker_lock,
                   running, index, submitterLocals, stops, submitted, pushed,
                   undisturbed>>

\* Lines 154-155 with `if best_buy and best_sell`: a buy popped alone is
\* not put back.
match_putback_buy_paired(m) ==
    /\ pc[m] = "m_putback_buy"
    /\ IF best_buy[m] # NoOrder /\ best_sell[m] # NoOrder
       THEN add_order(index[m], orders, best_buy[m])
       ELSE UNCHANGED <<buy_orders, sell_orders>>
    /\ best_buy' = [best_buy EXCEPT ![m] = NoOrder]
    /\ pc' = [pc EXCEPT ![m] = "m_putback_sell"]
    /\ UNCHANGED <<ticker_symbol, trade_locks, matches, match_lock,
                   create_ticker_lock, running, orders, index, best_sell,
                   submitterLocals, stops, history, undisturbed>>

\* Lines 154-155: if best_buy: order_book.add_order(best_buy)
match_putback_buy(m) ==
    /\ pc[m] = "m_putback_buy"
    /\ IF best_buy[m] # NoOrder
       THEN add_order(index[m], orders, best_buy[m])
       ELSE UNCHANGED <<buy_orders, sell_orders>>
    /\ best_buy' = [best_buy EXCEPT ![m] = NoOrder]
    /\ pc' = [pc EXCEPT ![m] = "m_putback_sell"]
    /\ UNCHANGED <<ticker_symbol, trade_locks, matches, match_lock,
                   create_ticker_lock, running, orders, index, best_sell,
                   submitterLocals, stops, history, undisturbed>>

\* Lines 156-157: if best_sell: order_book.add_order(best_sell); the trade
\* lock is left, matched is False and the while loop ends.
match_putback_sell(m) ==
    /\ pc[m] = "m_putback_sell"
    /\ IF best_sell[m] # NoOrder
       THEN add_order(index[m], orders, best_sell[m])
       ELSE UNCHANGED <<buy_orders, sell_orders>>
    /\ best_sell' = [best_sell EXCEPT ![m] = NoOrder]
    /\ trade_locks' = [trade_locks EXCEPT ![index[m]] = Free]
    /\ NextSlot(m)
    /\ entered' = [entered EXCEPT ![m] = NoEntry]
    /\ UNCHANGED <<ticker_symbol, matches, match_lock, create_ticker_lock,
                   running, orders, best_buy, submitterLocals, stops,
                   submitted, pushed, undisturbed>>

\* ------------------------------------------------------------------ stop

\* stop() with line 173 flipping the flag.
stop_toggling(t) ==
    /\ t = Stopper
    /\ pc[t] \in Between
    /\ stops < MaxStops
    /\ running' = ~ running
    /\ pc' = [pc EXCEPT ![t] = "join"]
    /\ UNCHANGED <<shared, match_lock, create_ticker_lock, orders, index,
                   matcherLocals, submitterLocals, stops, history, undisturbed>>

\* stop(), line 173: self.running = False
stop(t) ==
    /\ t = Stopper
    /\ pc[t] \in Between
    /\ stops < MaxStops
    /\ running' = FALSE
    /\ pc' = [pc EXCEPT ![t] = "join"]
    /\ UNCHANGED <<shared, match_lock, create_ticker_lock, orders, index,
                   matcherLocals, submitterLocals, stops, history, undisturbed>>

\* A join that does not wait.
EndedOrNot(m) == TRUE

\* The thread has ended: its function returned or an exception left it.
Ended(m) == pc[m] \in {"exited", "crashed"}

\* stop(), lines 174-175: self.matching_thread.join() returns once the
\* thread has ended.
stop_join(t) ==
    /\ t = Stopper
    /\ pc[t] = "join"
    /\ Ended(BG)
    /\ pc' = [pc EXCEPT ![t] = "returned"]
    /\ stops' = stops + 1
    /\ UNCHANGED <<shared, match_lock, create_ticker_lock, running, orders,
                   index, matcherLocals, submitterLocals, history, undisturbed>>

\* ------------------------------------------------------------------ Next

\* What callers may pass to addOrder.
Request(ot, t, q, p) ==
    [order_type |-> ot, ticker_symbol |-> t, quantity |-> q, price |-> p]
Requests ==
    [order_type : OrderType, ticker_symbol : Tickers,
     quantity : Quantities, price : Prices]
ValidRequests == {r \in Requests : ~ Invalid(r.quantity, r.price)}

\* The callers of the whole system: a buyer and sellers on two tickers that
\* share a start slot.
Menu ==
    {Request(BUY, "X", 100, 50), Request(SELL, "X", 40, 45),
     Request(SELL, "Y", 40, 45)}
\* The callers of one book: every valid order for ticker "X".
BookRequests == {r \in ValidRequests : r.ticker_symbol = "X"}
\* The callers of the directory: every ticker, one buy and one sell each.
DirectoryRequests ==
    {r \in ValidRequests :
        /\ r.order_type = BUY => (r.quantity = 100 /\ r.price = 50)
        /\ r.order_type = SELL => (r.quantity = 40 /\ r.price = 45)}
\* The callers of one ticker with a buyer of 100 at 50 and a seller of 40
\* at 45.
FillRequests == {Request(BUY, "X", 100, 50), Request(SELL, "X", 40, 45)}
\* The same for ticker "Y", whose probe starts at the slot of "X".
FillRequestsY == {Request(BUY, "Y", 100, 50), Request(SELL, "Y", 40, 45)}
\* The callers of one book that differ in side and price only.
PriorityRequests ==
    {r \in BookRequests : r.quantity = (IF r.order_type = BUY THEN 100 ELSE 40)}
\* Callers that also pass invalid quantities and prices, for ticker "X".
UncheckedRequests ==
    {r \in Requests :
        r.ticker_symbol = "X" /\ r.quantity <= 40 /\ r.price <= 45}

Submit(s, requests) ==
    \/ addOrder(s, requests)
    \/ ticker_to_index_enter(s)
    \/ ticker_to_index_claim(s)
    \/ ticker_to_index_lock(s)
    \/ addOrder_push(s)

Match(m) ==
    \/ match_check(m)
    \/ match_enter(m)
    \/ match_pop_buy(m)
    \/ match_pop_sell(m)
    \/ match_ledger(m)
    \/ match_append(m)
    \/ match_requeue(m)
    \/ match_putback_buy(m)
    \/ match_putback_sell(m)

\* The whole system: two submitters, the background thread, a thread that
\* calls matchOrder and a thread that calls stop.
Next ==
    \/ \E s \in Submitters : Submit(s, Menu)
    \/ \E m \in Matchers : Match(m)
    \/ matchOrder(Caller)
    \/ continuous_matching(BG)
    \/ stop(Stopper)
    \/ stop_join(Stopper)

Spec == Init /\ [][Next]_vars

\* The whole system on one ticker: one submitter, both matchers and the
\* stopping thread.
NextFills ==
    \/ Submit("s1", FillRequests)
    \/ \E m \in Matchers : Match(m)
    \/ matchOrder(Caller)
    \/ continuous_matching(BG)
    \/ stop(Stopper)
    \/ stop_join(Stopper)

SpecFills == Init /\ [][NextFills]_vars

\* Two tickers, a submitter for each, and both matchers.
NextTickers ==
    \/ Submit("s1", FillRequests)
    \/ Submit("s2", FillRequestsY)
    \/ \E m \in Matchers : Match(m)
    \/ matchOrder(Caller)
    \/ continuous_matching(BG)

SpecTickers == Init /\ [][NextTickers]_vars

\* One ticker's book under orders of every side and price, swept by the
\* background thread and by a thread that calls matchOrder.
NextSweeps ==
    \/ Submit("s1", PriorityRequests)
    \/ \E m \in Matchers : Match(m)
    \/ matchOrder(Caller)
    \/ continuous_matching(BG)

SpecSweeps == Init /\ [][NextSweeps]_vars

\* One ticker's book under every valid order: one submitter and the
\* background thread.
NextBook ==
    \/ Submit("s1", BookRequests)
    \/ Match(BG)
    \/ continuous_matching(BG)

SpecBook == Init /\ [][NextBook]_vars

\* One ticker's book under orders of every side and price: two submitters,
\* whose pushes may come in the other order than their timestamps, and the
\* background thread.
NextPriority ==
    \/ \E s \in Submitters : Submit(s, PriorityRequests)
    \/ Match(BG)
    \/ continuous_matching(BG)

SpecPriority == Init /\ [][NextPriority]_vars

\* The directory under every ticker: two submitters and the background
\* thread.
NextDirectory ==
    \/ \E s \in Submitters : Submit(s, DirectoryRequests)
    \/ Match(BG)
    \/ continuous_matching(BG)

SpecDirectory == Init /\ [][NextDirectory]_vars

\* Validation: one submitter passing valid and invalid arguments, and the
\* background thread.
NextValidation ==
    \/ Submit("s1", UncheckedRequests)
    \/ Match(BG)
    \/ continuous_matching(BG)

SpecValidation == Init /\ [][NextValidation]_vars

\* ---------------------------------------------------------------- fairness
\* Fair scheduling: a thread that can take its next step eventually takes
\* it, and a thread waiting for a lock that is free again and again
\* eventually gets it (strong fairness on the steps that acquire a lock).
\* Nothing obliges an application thread to make a call: the first step of
\* addOrder, matchOrder and stop is under no fairness.
Fairness ==
    /\ WF_vars(continuous_matching(BG))
    /\ \A m \in Matchers : SF_vars(Match(m))
    /\ \A s \in Submitters :
          /\ SF_vars(ticker_to_index_enter(s))
          /\ WF_vars(ticker_to_index_claim(s))
          /\ WF_vars(ticker_to_index_lock(s))
          /\ WF_vars(addOrder_push(s))
    /\ WF_vars(stop_join(Stopper))

\* SpecBook and SpecFills under fair scheduling.
SpecBookFair == SpecBook /\ Fairness
SpecFillsFair == SpecFills /\ Fairness

\* ---------------------------------------------------------------- claims

Range(f) == {f[k] : k \in DOMAIN f}

\* Order o rests in a queue of (bq, sq), two functions from slots to heaps.
RestsIn(o, bq, sq) ==
    \E i \in Slots : o \in Range(bq[i]) \/ o \in Range(sq[i])

Resting(o) == RestsIn(o, buy_orders, sell_orders)

\* Order o is held by a matching transaction: popped, not yet pushed back
\* or dropped.
Held(o) == \E m \in Matchers : best_buy[m] = o \/ best_sell[m] = o

\* The trades of the ledger that reference order o, and their quantities
\* summed.
RECURSIVE FilledIn(_, _)
FilledIn(o, ledger) ==
    IF ledger = <<>> THEN 0
    ELSE (IF o \in {Head(ledger).buy_order_id, Head(ledger).sell_order_id}
          THEN Head(ledger).quantity ELSE 0) + FilledIn(o, Tail(ledger))

Filled(o) == FilledIn(o, matches)

\* What is left of order o: its quantity while it rests or is held, nothing
\* once a fill has consumed it (the object is dropped with its last quantity).
Remaining(o) == IF Resting(o) \/ Held(o) THEN orders[o].quantity ELSE 0

\* C1: every trade of the ledger pairs a BUY and a SELL of the same ticker
\* with buy price >= sell price, and its price is the sell order's price (so
\* a BUY below a SELL never trades).
C1_TradesPairCrossingOrdersOfOneTicker ==
    \A k \in 1 .. Len(matches) :
        LET b == orders[matches[k].buy_order_id]
            s == orders[matches[k].sell_order_id]
        IN /\ b.order_type = BUY
           /\ s.order_type = SELL
           /\ b.ticker_symbol = s.ticker_symbol
           /\ b.price >= s.price
           /\ matches[k].price = s.price

\* The smaller of two quantities.
Smaller(a, b) == IF a <= b THEN a ELSE b

\* C2: the trade a transaction appends has quantity min(buy quantity, sell
\* quantity) as they are before the fill; when the transaction ends, the
\* side that had the strictly larger quantity rests in its queue with
\* (before - fill) and the other side is in no queue; nothing changes the
\* quantities of the two orders in between.
C2_FillIsMinAndRemainderRequeued ==
    [][\A m \in Matchers :
          LET b == best_buy[m]
              s == best_sell[m]
              qb == orders[b].quantity
              qs == orders[s].quantity
              fill == Smaller(qb, qs)
          IN /\ (pc[m] = "m_append" /\ pc'[m] = "m_requeue") =>
                  /\ Len(matches') = Len(matches) + 1
                  /\ matches'[Len(matches')].buy_order_id = b
                  /\ matches'[Len(matches')].sell_order_id = s
                  /\ matches'[Len(matches')].quantity = fill
             /\ (pc[m] = "m_requeue" /\ pc'[m] = "m_requeue") =>
                  /\ orders'[b].quantity = qb
                  /\ orders'[s].quantity = qs
             /\ (pc[m] = "m_requeue" /\ pc'[m] # "m_requeue") =>
                  /\ qb > qs =>
                       /\ b \in Range(buy_orders'[index[m]])
                       /\ orders'[b].quantity = qb - fill
                       /\ ~ RestsIn(s, buy_orders', sell_orders')
                  /\ qb < qs =>
                       /\ s \in Range(sell_orders'[index[m]])
                       /\ orders'[s].quantity = qs - fill
                       /\ ~ RestsIn(b, buy_orders', sell_orders')
                  /\ qb = qs =>
                       /\ ~ RestsIn(b, buy_orders', sell_orders')
                       /\ ~ RestsIn(s, buy_orders', sell_orders')
      ]_vars

\* A sell of 100 filled by a buy of 40 rests with 60, the trade of 40 in
\* the ledger and the buy in no queue.
C2_Witness ==
    \E i \in Slots : \E o \in Range(sell_orders[i]) :
        /\ submitted[o] = 100 /\ orders[o].quantity = 60
        /\ \E k \in 1 .. Len(matches) :
              /\ matches[k].sell_order_id = o /\ matches[k].quantity = 40
              /\ ~ Resting(matches[k].buy_order_id)

\* C3 as stated: in every state, for every accepted order, the quantities
\* of its trades plus what is left of it equal the quantity submitted.
C3_ConservedInEveryState ==
    \A o \in pushed : Filled(o) + Remaining(o) = submitted[o]

\* Order o is held by a transaction that has appended its trade and has not
\* yet reduced and requeued the remainder.
MidFill(o) ==
    \E m \in Matchers : pc[m] = "m_requeue" /\ o \in {best_buy[m], best_sell[m]}

\* C3 amended: the equation holds for every accepted order that is not held
\* by a transaction between appending its trade and requeueing; and in
\* every state no order is filled beyond the quantity submitted.
C3_ConservedOutsideAFill ==
    \A o \in pushed :
        /\ ~ MidFill(o) => Filled(o) + Remaining(o) = submitted[o]
        /\ Filled(o) <= submitted[o]

\* An order filled by two trades, with what is left of it resting.
C3_Witness ==
    \E o \in pushed :
        /\ Cardinality({k \in 1 .. Len(matches) :
              o \in {matches[k].buy_order_id, matches[k].sell_order_id}}) = 2
        /\ Resting(o)
        /\ Filled(o) = 80

\* Order a goes before order b by price-time priority on the side `side`.
Before(side, a, b) ==
    \/ (side = BUY /\ a.price > b.price)
    \/ (side = SELL /\ a.price < b.price)
    \/ (a.price = b.price /\ a.timestamp < b.timestamp)

C5_BookHoldsOnlyItsTicker ==
    \A i \in Slots :
        \A o \in Range(buy_orders[i]) \cup Range(sell_orders[i]) :
            orders[o].ticker_symbol = ticker_symbol[i]

\* C6: no two slots hold the same ticker, and a slot's ticker, once set to
\* a string (the empty string too), stays that string, so that every later
\* ticker_to_index of it returns the same slot.
C6_TickerKeepsItsSlot ==
    /\ [](\A i, j \in Slots :
             (i # j /\ ticker_symbol[i] # None) =>
                 ticker_symbol[i] # ticker_symbol[j])
    /\ [][\A i \in Slots :
             ticker_symbol[i] # None => ticker_symbol'[i] = ticker_symbol[i]]_vars

\* Every slot is assigned, and to a ticker other than t.
DirectoryFullFor(t) == \A i \in Slots : ticker_symbol[i] \notin {None, t}

\* C7: with every slot assigned to another ticker, addOrder for an unseen
\* ticker fails (whatever the exception) and changes no slot's ticker, no
\* queue, no trade lock and not the ledger.
C7_FullDirectoryRejectsNewTicker ==
    [][\A s \in Submitters :
          (/\ pc[s] = "t2i_claim"
           /\ pc'[s] # "t2i_claim"
           /\ DirectoryFullFor(req[s].ticker_symbol)) =>
              /\ pc'[s] = "raised"
              /\ UNCHANGED shared
      ]_vars

\* C8: addOrder with quantity <= 0 or price <= 0 raises ValueError and has
\* no effect: no order is created or queued, no slot is claimed, no trade
\* lock is created, the ledger is unchanged.
C8_InvalidOrderRaisesAndChangesNothing ==
    [][\A s \in Submitters :
          (/\ pc[s] \in Between
           /\ <<pc[s], req[s], result[s]>>' # <<pc[s], req[s], result[s]>>
           /\ (req'[s].quantity <= 0 \/ req'[s].price <= 0)) =>
              /\ pc'[s] = "raised"
              /\ result'[s] = "ValueError"
              /\ UNCHANGED <<shared, orders, cur, locks, history>>
      ]_vars

\* Invalid arguments for a ticker no slot holds were rejected, once for the
\* quantity and once for the price.
C8_Witness ==
    /\ pc["s1"] = "raised"
    /\ result["s1"] = "ValueError"
    /\ req["s1"].quantity > 0
    /\ req["s1"].price = 0
    /\ \A i \in Slots : ticker_symbol[i] = None
    /\ orders = <<>>

\* The orders of the scenario: BUY 100 at 50, then SELL 40 at 45, for "X",
\* and nothing else.
ScenarioSubmitted ==
    /\ Len(orders) = 2
    /\ pushed = {1, 2}
    /\ submitted = <<100, 40>>
    /\ orders[1].order_type = BUY /\ orders[1].ticker_symbol = "X"
    /\ orders[1].price = 50
    /\ orders[2].order_type = SELL /\ orders[2].ticker_symbol = "X"
    /\ orders[2].price = 45

\* The background thread has finished a sweep that began after the last
\* addOrder returned.
SweepRan == pc[BG] = "loop" /\ undisturbed[BG]

\* The slot of ticker "X" (its start slot: nothing else is assigned).
SlotX == hash("X") % size

\* C9: after BUY 100 at 50 and SELL 40 at 45 for "X" on an empty engine and
\* a sweep, the ledger holds one trade, 40 at 45, one BUY of 60 rests in
\* the book of "X" and no SELL.
C9_EndToEnd ==
    (ScenarioSubmitted /\ SweepRan) =>
        /\ matches = <<[buy_order_id |-> 1, sell_order_id |-> 2,
                        quantity |-> 40, price |-> 45]>>
        /\ buy_orders = [i \in Slots |-> IF i = SlotX THEN <<1>> ELSE <<>>]
        /\ orders[1].quantity = 60
        /\ sell_orders = [i \in Slots |-> <<>>]

C9_Witness == ScenarioSubmitted /\ SweepRan /\ Len(matches) = 1

\* C10: once a call of stop has returned, the background thread has ended,
\* holds no order and no lock, and takes no further step.
C10_NoMatchingAfterStop ==
    /\ [](stops >= 1 =>
             /\ pc[BG] \in {"exited", "crashed"}
             /\ best_buy[BG] = NoOrder /\ best_sell[BG] = NoOrder
             /\ match_lock # BG
             /\ \A i \in Slots : trade_locks[i] # BG)
    /\ [][stops >= 1 =>
             <<pc[BG], index[BG], best_buy[BG], best_sell[BG]>>'
                 = <<pc[BG], index[BG], best_buy[BG], best_sell[BG]>>]_vars

\* stop has returned, the thread has exited, and a buy and a sell that
\* cross rest in a book.
C10_Witness ==
    /\ stops >= 1
    /\ pc[BG] = "exited"
    /\ \E i \in Slots :
          /\ get_best_buy(i) # NoOrder
          /\ get_best_sell(i) # NoOrder
          /\ orders[get_best_buy(i)].price >= orders[get_best_sell(i)].price

\* C11: once a call of stop has returned, the flag is false and the
\* background thread has ended, so a further call of stop finds its join
\* satisfied; and the steps of that further call change neither the flag,
\* nor the thread, nor the books, the trade locks, the ledger or the orders.
C11_SecondStopChangesNothing ==
    /\ [](stops >= 1 => (~ running /\ pc[BG] \in {"exited", "crashed"}))
    /\ [][(stops >= 1 /\ pc'[Stopper] # pc[Stopper]) =>
             /\ running' = running
             /\ pc'[BG] = pc[BG]
             /\ UNCHANGED <<shared, orders, match_lock, create_ticker_lock>>
         ]_vars

\* stop has returned twice, with a trade in the ledger and an order resting.
C11_Witness ==
    /\ stops = 2
    /\ pc[Stopper] = "returned"
    /\ matches # <<>>
    /\ \E o \in pushed : Resting(o)

\* Thread t is inside addOrder, or inside the transaction of lines 131-157.
InAddOrder(t) == t \in Submitters /\ pc[t] \notin Between
InTransaction(t) ==
    /\ t \in Matchers
    /\ pc[t] \in {"m_enter", "m_pop_buy", "m_pop_sell", "m_ledger", "m_append",
                  "m_requeue", "m_putback_buy", "m_putback_sell"}

\* The ticker thread t is working for: the argument of its addOrder, or the
\* ticker of the slot it is matching.
WorkingFor(t) ==
    IF t \in Submitters THEN req[t].ticker_symbol ELSE ticker_symbol[index[t]]

\* The lock thread t stands in front of, and the lock's value.
WaitedLock(t) ==
    CASE pc[t] = "t2i_enter" -> "create_ticker_lock"
      [] pc[t] = "m_enter" -> "trade_lock"
      [] pc[t] = "m_ledger" -> "match_lock"
      [] OTHER -> None
WaitedValue(t) ==
    CASE pc[t] = "t2i_enter" -> create_ticker_lock
      [] pc[t] = "m_enter" -> trade_locks[index[t]]
      [] pc[t] = "m_ledger" -> match_lock
      [] OTHER -> Free

\* Thread t is blocked by thread u, each at work for another ticker.
BlockedAcrossTickers(t, u) ==
    /\ t # u
    /\ WaitedValue(t) = u
    /\ (InAddOrder(t) \/ InTransaction(t))
    /\ (InAddOrder(u) \/ InTransaction(u))
    /\ WorkingFor(t) # WorkingFor(u)

\* C12 as stated: no thread in addOrder or in the matching transaction for
\* one ticker waits for a lock held by a thread in addOrder or in the
\* matching transaction for another ticker.
C12_NoBlockingAcrossTickers ==
    \A t, u \in Threads : ~ BlockedAcrossTickers(t, u)

\* C12 amended: a thread waits for a thread at work for another ticker only
\* at the directory lock or at the ledger lock; the directory lock is held
\* only over the probe, the assignment and the creation of the trade lock,
\* the ledger lock only over the append, neither over a push or a pop; and
\* the holder of a trade lock is matching that very slot.
C12_OnlyDirectoryAndLedgerLockAcrossTickers ==
    /\ \A t, u \in Threads :
          BlockedAcrossTickers(t, u) =>
              WaitedLock(t) \in {"create_ticker_lock", "match_lock"}
    /\ create_ticker_lock # Free =>
          pc[create_ticker_lock] \in {"t2i_claim", "t2i_lock"}
    /\ match_lock # Free => pc[match_lock] = "m_append"
    /\ \A i \in Slots :
          trade_locks[i] \in Matchers =>
              (index[trade_locks[i]] = i /\ InTransaction(trade_locks[i]))

\* The submitter of "X" waits at the directory lock while the submitter of
\* "Y" holds it, and a matcher is inside the transaction of a slot.
C12_Witness ==
    /\ BlockedAcrossTickers("s1", "s2")
    /\ \E m \in Matchers : pc[m] = "m_pop_sell"

\* C13: whenever a sweep has seen the ticker of a slot assigned and is about
\* to take trade_locks[index], the lock is there; no sweep fails on a missing
\* lock.
C13_SweepFindsTheTradeLock ==
    \A m \in Matchers :
        /\ pc[m] = "m_enter" => trade_locks[index[m]] # None
        /\ pc[m] \notin {"crashed", "raised"}

\* Matcher m is inside the block of line 131 for its slot: past the
\* acquisition of the trade lock, not yet past the requeue, the drop or the
\* put-back that ends the transaction.
InCritical(m) ==
    pc[m] \in {"m_pop_buy", "m_pop_sell", "m_ledger", "m_append", "m_requeue",
               "m_putback_buy", "m_putback_sell"}

\* C14: no two threads are inside the pop-compare-requeue transaction of
\* the same slot at once, and the thread inside holds the slot's trade lock.
C14_OneTransactionPerSlot ==
    /\ \A m, n \in Matchers :
          (m # n /\ InCritical(m) /\ InCritical(n)) => index[m] # index[n]
    /\ \A m \in Matchers : InCritical(m) => trade_locks[index[m]] = m

\* Both matchers are inside their transactions, on different slots, each
\* holding an order it has popped.
C14_Witness ==
    /\ InCritical(BG) /\ InCritical(Caller)
    /\ index[BG] # index[Caller]
    /\ best_buy[BG] # NoOrder \/ best_sell[BG] # NoOrder
    /\ best_buy[Caller] # NoOrder \/ best_sell[Caller] # NoOrder

\* The book of slot i is uncrossed: a side is empty, or the best buy price
\* is below the best sell price.
Uncrossed(i) ==
    \/ get_best_buy(i) = NoOrder
    \/ get_best_sell(i) = NoOrder
    \/ orders[get_best_buy(i)].price < orders[get_best_sell(i)].price

\* C15: when matchOrder has returned and no addOrder ran from the start of
\* the call on, the book of every assigned slot is uncrossed.
C15_UncrossedAfterMatchOrder ==
    (pc[Caller] = "returned" /\ undisturbed[Caller]) =>
        \A i \in Slots : ticker_symbol[i] # None => Uncrossed(i)

\* matchOrder has returned undisturbed, with a trade in the ledger and a
\* buy resting below a sell.
C15_Witness ==
    /\ pc[Caller] = "returned" /\ undisturbed[Caller]
    /\ matches # <<>>
    /\ \E i \in Slots :
          /\ get_best_buy(i) # NoOrder
          /\ get_best_sell(i) # NoOrder
          /\ orders[get_best_buy(i)].price < orders[get_best_sell(i)].price

\* C16: while stop has not been called, a book whose best resting buy and
\* best resting sell cross is eventually uncrossed (by a trade of the
\* background sweep, or otherwise).
C16_CrossedBookIsEventuallyMatched ==
    \A i \in Slots :
        (running /\ ~ Uncrossed(i)) ~> (~ running \/ Uncrossed(i))

NoCross(b, s) ==
    b = NoOrder \/ s = NoOrder \/ orders[b].price < orders[s].price

\* C18: a transaction that finds no cross takes the put-back branch; its
\* steps append nothing to the ledger and change no order's quantity, price
\* or timestamp; they push back what was popped; the last one leaves the
\* trade lock and ends the loop for the slot; and in a sweep no addOrder has
\* disturbed, the queues of the slot then hold exactly the orders they held
\* when the transaction began, each once.
C18_NoCrossRestoresTheBook ==
    [][\A m \in Matchers :
          LET i == index[m]
          IN /\ (pc[m] = "m_pop_sell" /\ pc'[m] # "m_pop_sell"
                    /\ NoCross(best_buy[m], best_sell'[m])) =>
                  /\ pc'[m] = "m_putback_buy"
                  /\ matches' = matches /\ orders' = orders
             /\ (pc[m] = "m_putback_buy" /\ pc'[m] # "m_putback_buy") =>
                  /\ matches' = matches /\ orders' = orders
                  /\ best_buy[m] # NoOrder =>
                        best_buy[m] \in Range(buy_orders'[i])
             /\ (pc[m] = "m_putback_sell" /\ pc'[m] # "m_putback_sell") =>
                  /\ matches' = matches /\ orders' = orders
                  /\ best_sell[m] # NoOrder =>
                        best_sell[m] \in Range(sell_orders'[i])
                  /\ pc'[m] \in {"m_check", "loop", "returned"}
                  /\ trade_locks'[i] = Free
                  /\ undisturbed[m] =>
                        /\ Range(buy_orders'[i]) = entered[m].buys
                        /\ Range(sell_orders'[i]) = entered[m].sells
                        /\ Len(buy_orders'[i]) = Cardinality(entered[m].buys)
                        /\ Len(sell_orders'[i]) = Cardinality(entered[m].sells)
      ]_vars

\* In an undisturbed sweep a transaction has popped a buy and a sell that
\* do not cross, has put the buy back and holds the sell, with another
\* sell left in the queue.
C18_Witness ==
    \E m \in Matchers :
        /\ pc[m] = "m_putback_sell" /\ undisturbed[m]
        /\ best_sell[m] # NoOrder
        /\ get_best_buy(index[m]) # NoOrder
        /\ orders[get_best_buy(index[m])].price < orders[best_sell[m]].price
        /\ sell_orders[index[m]] # <<>>

\* The places order o is in: its occurrences in the queues, as triples of
\* slot, side and position, and the locals of matchers that hold it.
RestingPlaces(o) ==
    {p \in Slots \X OrderType \X (1 .. Len(orders)) :
        LET q == IF p[2] = BUY THEN buy_orders[p[1]] ELSE sell_orders[p[1]]
        IN p[3] <= Len(q) /\ q[p[3]] = o}
HoldingPlaces(o) ==
    {p \in Matchers \X OrderType :
        (IF p[2] = BUY THEN best_buy[p[1]] ELSE best_sell[p[1]]) = o}

\* C19: every order addOrder has pushed is in one place only: once in one
\* queue, the queue of its side in the book of the slot that holds its
\* ticker, with a quantity above 0; or in the hands of one transaction; or
\* nowhere, and then its trades sum to the quantity submitted.
C19_OrderInExactlyOnePlace ==
    \A o \in pushed :
        /\ Cardinality(RestingPlaces(o)) + Cardinality(HoldingPlaces(o)) <= 1
        /\ \A p \in RestingPlaces(o) :
              /\ p[2] = orders[o].order_type
              /\ ticker_symbol[p[1]] = orders[o].ticker_symbol
              /\ orders[o].quantity > 0
        /\ \A p \in HoldingPlaces(o) : p[2] = orders[o].order_type
        /\ (RestingPlaces(o) = {} /\ HoldingPlaces(o) = {}) =>
              Filled(o) = submitted[o]

\* The trade locks thread t holds.
TradeLocksOf(t) == {i \in Slots : trade_locks[i] = t}

\* Thread t is about to take a side lock of a book (buy_lock or sell_lock,
\* inside add_order, pop_best_buy or pop_best_sell).
TakesSideLock(t) ==
    pc[t] \in {"add_order", "m_pop_buy", "m_pop_sell", "m_requeue",
               "m_putback_buy", "m_putback_sell"}

\* The thread t waits for: the holder of the lock it stands in front of, the
\* background thread for a stop caller in join, or nobody (None).
WaitsFor(t) ==
    IF t = Stopper
    THEN IF pc[t] = "join" /\ ~ Ended(BG) THEN BG ELSE None
    ELSE IF WaitedValue(t) \in Threads THEN WaitedValue(t) ELSE None

\* Where n steps along the waits-for relation lead from thread t: None when
\* a thread that waits for nobody is reached (a cycle never reaches one).
RECURSIVE WaitsForChain(_, _)
WaitsForChain(t, n) ==
    IF t = None \/ n = 0 THEN t ELSE WaitsForChain(WaitsFor(t), n - 1)

\* C20: the directory lock is never held together with another lock; the
\* ledger lock and the side locks are only taken inside one trade lock or
\* with no lock held, never inside one another; a thread outside a call
\* holds no lock; and no set of threads wait for one another.
C20_LockOrderAndNoDeadlock ==
    /\ \A t \in Threads :
          /\ create_ticker_lock = t =>
                /\ TradeLocksOf(t) = {} /\ match_lock # t
                /\ ~ TakesSideLock(t)
                /\ WaitsFor(t) = None
          /\ match_lock = t =>
                /\ Cardinality(TradeLocksOf(t)) = 1
                /\ ~ TakesSideLock(t)
                /\ WaitsFor(t) = None
          /\ Cardinality(TradeLocksOf(t)) <= 1
          /\ TradeLocksOf(t) # {} =>
                (t \in Matchers /\ TradeLocksOf(t) = {index[t]})
          /\ pc[t] \in {"m_enter", "t2i_enter"} =>
                (TradeLocksOf(t) = {} /\ match_lock # t /\ create_ticker_lock # t)
          /\ pc[t] \in Between \cup {"loop", "m_check", "exited", "crashed", "join"} =>
                (TradeLocksOf(t) = {} /\ match_lock # t /\ create_ticker_lock # t)
    /\ \A t \in Threads : WaitsForChain(t, Cardinality(Threads)) = None

\* A submitter waits for the directory lock, held by the other submitter;
\* a matcher waits for the trade lock of a slot, held by the other matcher,
\* which holds an order; stop waits in join.
C20_Witness ==
    /\ WaitsFor("s1") = "s2"
    /\ WaitsFor(Caller) = BG
    /\ best_buy[BG] # NoOrder
    /\ WaitsFor(Stopper) = BG

====
